---- MODULE Spec2Model ----
(***************************************************************************)
(* Timed-assessment session and submission subsystem of the backend:       *)
(* routes/assessments.js (start, submit-mcq, submit-coding, submit, PUT,   *)
(* publish), routes/codeExecution.js (assessment-submit) and the Assessment*)
(* and AssessmentSubmission models.                                        *)
(*                                                                         *)
(* Every route handler is split at its awaits on the submission store: a   *)
(* handler reads a document into a local snapshot in one step and writes   *)
(* in a later step, so that two requests interleave as they do on the      *)
(* Node event loop.  A document save persists the paths the handler        *)
(* modified: scalar fields are set, array pushes are appended to the       *)
(* stored array.                                                           *)
(***************************************************************************)
EXTENDS Integers, Sequences, FiniteSets, TLC

\* ---------------------------------------------------------------- bounds
MaxTime == 5            \* the clock runs over the ticks 0..MaxTime
MaxRequests == 4        \* requests admitted in one run
ConfigMaxAttempts == 2  \* maxAttempts of the coding question in the manifest

\* ------------------------------------------------------ program constants
MsPerMinute == 60000         \* duration * 60000
ExecMaxAttempts == 3         \* const maxAttempts = 3 in /assessment-submit
DefaultMcqPoints == 5        \* questionConfig?.points || 5
MaxPolls == 30               \* const maxAttempts = 30 of the polling loops
ExecRateLimit == 10          \* validExecutions.length >= 10
ExecWindowMs == 60000        \* now - time < 60000

\* ------------------------------------------------------------ model data
TickMinutes == 10
TickMs == TickMinutes * MsPerMinute
StartTick == 1
Durations == {30, 60}
Students == {"s1", "s2"}
AssessmentGroups == {"g1"}
CodingQuestionIds == {"c1"}
McqQuestionIds == {"m1"}
\* the Question collection: m2 and c2 are questions of the bank that the
\* assessment does not contain
BankMcqIds == {"m1", "m2"}
BankCodingIds == {"c1", "c2"}
BankQuestionIds == BankMcqIds \cup BankCodingIds
TestCaseCount == 2
CorrectAnswer == 2
Answers == {0, CorrectAnswer}
StoredAttemptCap == ConfigMaxAttempts + 1
NoDate == -1
NoSid == 0
Reqs == {1, 2}            \* two request handlers in flight at once

VARIABLES now, assessment, userGroups, subs, metrics, req, lastResponse, admitted,
          questions, judge, executionQueue, executionLog

vars == <<now, assessment, userGroups, subs, metrics, req, lastResponse, admitted,
          questions, judge, executionQueue, executionLog>>

\* ------------------------------------------------------------- helpers
Min(a, b) == IF a <= b THEN a ELSE b

NowMs == now * TickMs

RECURSIVE SumSeq(_)
SumSeq(s) == IF s = <<>> THEN 0 ELSE Head(s) + SumSeq(Tail(s))

\* Array.prototype.find / findIndex: the first index whose element has the
\* question, 0 when there is none.
FindIndexByQuestion(arr, q) ==
  IF \E i \in DOMAIN arr : arr[i].question = q
  THEN CHOOSE i \in DOMAIN arr :
         /\ arr[i].question = q
         /\ \A j \in DOMAIN arr : arr[j].question = q => i <= j
  ELSE 0

\* ----------------------------------------------------- Assessment model
\* assessmentSchema.methods.isAccessible
IsAccessibleNoStartCheck(a, t) ==
  /\ a.isActive
  /\ a.isPublished
  /\ ~(~a.allowLateSubmission /\ t > a.endTime)

IsAccessible(a, t) ==
  /\ ~(~a.isActive \/ ~a.isPublished)
  /\ ~(t < a.startTime)
  /\ ~(~a.allowLateSubmission /\ t > a.endTime)

\* getStatus, the method the routes call on an assessment; part_007 attaches
\* it to the misspelt name assessmentessmentSchema and is modelled for a
\* build in which the method exists
GetStatus(a, t) ==
  IF ~a.isPublished THEN "draft"
  ELSE IF t < a.startTime THEN "upcoming"
  ELSE IF t >= a.startTime /\ t <= a.endTime THEN "active"
  ELSE "completed"

\* assessmentSchema.virtual('totalPoints')
TotalPoints(a) ==
  SumSeq([i \in DOMAIN a.codingQuestions |-> a.codingQuestions[i].points])
  + SumSeq([i \in DOMAIN a.mcqQuestions |-> a.mcqQuestions[i].points])

\* POST /api/assessments: endTime = startTime + duration * 60000
NewAssessment(duration, allowLate) ==
  [ isActive |-> TRUE,
    isPublished |-> FALSE,
    groups |-> AssessmentGroups,
    startTime |-> StartTick * TickMs,
    duration |-> duration,
    endTime |-> StartTick * TickMs + duration * MsPerMinute,
    allowLateSubmission |-> allowLate,
    negativeMarking |-> FALSE,
    negativeMarkingValuePct |-> 25,
    shuffleOptions |-> FALSE,
    showResultsImmediately |-> TRUE,
    showCorrectAnswers |-> TRUE,
    codingQuestions |-> << [question |-> "c1", points |-> 10,
                            maxAttempts |-> ConfigMaxAttempts] >>,
    mcqQuestions |-> << [question |-> "m1", points |-> 4, maxAttempts |-> 1] >> ]

\* ------------------------------------------------------- Question model
SolutionCodes == {"sol_a", "sol_b"}
HiddenOutputs == {"out_a", "out_b"}

\* the option texts of an MCQ question, indexed from 0 as in the code
OptionIndices == 0..CorrectAnswer
OptionTexts == {"x", "y"}
DefaultOptions == [i \in OptionIndices |-> IF i = CorrectAnswer THEN "y" ELSE "x"]
NoOptions == [i \in {} |-> "x"]

\* the Question collection: every coding question has TestCaseCount test
\* cases, the first visible and the others hidden
QuestionBank(sol, hid, ca) ==
  [q \in BankQuestionIds |->
     IF q \in BankCodingIds
     THEN [id |-> q, type |-> "coding", isActive |-> TRUE, solutionCode |-> sol,
           testCases |-> [k \in 1..TestCaseCount |->
                            [expectedOutput |-> IF k = 1 THEN "visible" ELSE hid,
                             isHidden |-> (k # 1)]],
           options |-> NoOptions, correctAnswer |-> 0]
     ELSE [id |-> q, type |-> "mcq", isActive |-> TRUE, solutionCode |-> "none",
           testCases |-> <<>>, options |-> DefaultOptions, correctAnswer |-> ca]]

DefaultQuestions == QuestionBank("sol_a", "out_a", CorrectAnswer)

\* ------------------------------------------- AssessmentSubmission model
Percentage0 == [num |-> 0, den |-> 1]

\* new AssessmentSubmission({assessment, student, startedAt}) with the
\* schema defaults
NewSubmission(student, startedAt) ==
  [ student |-> student,
    status |-> "in_progress",
    startedAt |-> startedAt,
    submittedAt |-> NoDate,
    timeTaken |-> NoDate,
    mcqAnswers |-> <<>>,
    codingSubmissions |-> <<>>,
    mcqScore |-> 0,
    mcqMaxScore |-> 0,
    codingScore |-> 0,
    codingMaxScore |-> 0,
    totalScore |-> 0,
    maxScore |-> 0,
    percentage |-> Percentage0,
    grade |-> "none" ]

\* the grade buckets with strict comparisons
GradeOfStrict(p) ==
  IF p.num > 95 * p.den THEN "A+"
  ELSE IF p.num > 90 * p.den THEN "A"
  ELSE IF p.num > 85 * p.den THEN "B+"
  ELSE IF p.num > 80 * p.den THEN "B"
  ELSE IF p.num > 75 * p.den THEN "C+"
  ELSE IF p.num > 70 * p.den THEN "C"
  ELSE IF p.num > 60 * p.den THEN "D"
  ELSE "F"

\* the grade buckets of the pre-save hook, on the exact ratio num/den
GradeOf(p) ==
  IF p.num >= 95 * p.den THEN "A+"
  ELSE IF p.num >= 90 * p.den THEN "A"
  ELSE IF p.num >= 85 * p.den THEN "B+"
  ELSE IF p.num >= 80 * p.den THEN "B"
  ELSE IF p.num >= 75 * p.den THEN "C+"
  ELSE IF p.num >= 70 * p.den THEN "C"
  ELSE IF p.num >= 60 * p.den THEN "D"
  ELSE "F"

\* assessmentSubmissionSchema.pre('save')
PreSave(d) ==
  LET total == d.mcqScore + d.codingScore
      maxS == d.mcqMaxScore + d.codingMaxScore
      pct == IF maxS > 0 THEN [num |-> total * 100, den |-> maxS]
             ELSE d.percentage
      tt == IF d.submittedAt # NoDate /\ d.startedAt # NoDate
            THEN (d.submittedAt - d.startedAt) \div 1000
            ELSE d.timeTaken
  IN [d EXCEPT !.totalScore = total, !.maxScore = maxS, !.percentage = pct,
               !.grade = GradeOf(pct), !.timeTaken = tt]

ScalarFields ==
  {"status", "startedAt", "submittedAt", "timeTaken", "mcqScore", "mcqMaxScore",
   "codingScore", "codingMaxScore", "totalScore", "maxScore", "percentage",
   "grade"}

\* document.save() of a loaded document: the scalar paths whose value the
\* handler changed since the load are $set on the stored document; the
\* arrays are written by the caller's pushes.
SaveScalars(stored, loaded, local) ==
  [f \in DOMAIN stored |->
     IF f \in ScalarFields /\ local[f] # loaded[f] THEN local[f] ELSE stored[f]]

\* AssessmentSubmission.findOne({assessment, student}): the first document
\* of the student in insertion order, NoSid when there is none
FindOneByStudent(s) ==
  IF \E i \in DOMAIN subs : subs[i].student = s
  THEN CHOOSE i \in DOMAIN subs :
         /\ subs[i].student = s
         /\ \A j \in DOMAIN subs : subs[j].student = s => i <= j
  ELSE NoSid

\* AssessmentSubmission.findOne({assessment, student, status: {$in: sts}})
FindOneByStatus(s, sts) ==
  IF \E i \in DOMAIN subs : subs[i].student = s /\ subs[i].status \in sts
  THEN CHOOSE i \in DOMAIN subs :
         /\ subs[i].student = s /\ subs[i].status \in sts
         /\ \A j \in DOMAIN subs :
              (subs[j].student = s /\ subs[j].status \in sts) => i <= j
  ELSE NoSid

\* ------------------------------------------------------------ requests
NoDoc == [student |-> "none"]

IdleReq == [op |-> "idle", pc |-> "idle", student |-> "none", sid |-> NoSid,
            snap |-> NoDoc, question |-> "none", val |-> 0]

NoData == [id |-> "none"]

Response(op, s, code, sid, endTime) ==
  [op |-> op, student |-> s, code |-> code, sid |-> sid, endTime |-> endTime,
   data |-> NoData]

\* a response that carries a data payload
ResponseWith(op, s, code, sid, endTime, data) ==
  [Response(op, s, code, sid, endTime) EXCEPT !.data = data]

\* the judge state of a handler with no test case submitted
IdleJudge == <<>>

\* a new request is served by the lowest free handler slot
FreeSlot(r) ==
  /\ admitted < MaxRequests
  /\ admitted' = admitted + 1
  /\ req[r].pc = "idle"
  /\ \A q \in Reqs : q < r => req[q].pc # "idle"

Init ==
  /\ now = 0
  /\ \E d \in Durations, late \in BOOLEAN : assessment = NewAssessment(d, late)
  /\ userGroups = [s \in Students |-> IF s = "s1" THEN {"g1"} ELSE {"g2"}]
  /\ subs = <<>>
  /\ metrics = [s \in Students |-> [totalAssessments |-> 0, completedAssessments |-> 0]]
  /\ req = [r \in Reqs |-> IdleReq]
  /\ admitted = 0
  /\ lastResponse = Response("none", "none", 0, NoSid, NoDate)
  /\ executionQueue = [u \in Students |-> <<>>]
  /\ executionLog = [u \in Students |-> <<>>]
  /\ questions = DefaultQuestions
  /\ judge = [r \in Reqs |-> IdleJudge]

\* the server clock (new Date()) advances
Tick ==
  /\ now < MaxTime
  /\ now' = now + 1
  /\ UNCHANGED <<assessment, userGroups, subs, metrics, req, lastResponse, admitted>>
  /\ UNCHANGED <<questions, judge, executionQueue, executionLog>>

\* POST /:id/publish
Publish ==
  /\ ~assessment.isPublished
  /\ Len(assessment.codingQuestions) + Len(assessment.mcqQuestions) # 0
  /\ assessment' = [assessment EXCEPT !.isPublished = TRUE]
  /\ UNCHANGED <<now, userGroups, subs, metrics, req, lastResponse, admitted>>
  /\ UNCHANGED <<questions, judge, executionQueue, executionLog>>

\* PUT /:id with a new duration: the assessment is loaded and its phase
\* checked
UpdateCheck(r, d) ==
  /\ FreeSlot(r)
  /\ d # assessment.duration
  /\ IF GetStatus(assessment, NowMs) \notin {"draft", "upcoming"}
     THEN /\ lastResponse' = Response("update", "none", 400, NoSid, NoDate)
          /\ UNCHANGED req
     ELSE /\ req' = [req EXCEPT ![r] = [IdleReq EXCEPT !.op = "update",
                                           !.pc = "write", !.val = d]]
          /\ UNCHANGED lastResponse
  /\ UNCHANGED <<now, assessment, userGroups, subs, metrics>>
  /\ UNCHANGED <<questions, judge, executionQueue, executionLog>>

\* findByIdAndUpdate writes the given fields and runs no save hook
UpdateWrite(r) ==
  /\ req[r].op = "update" /\ req[r].pc = "write"
  /\ assessment' = [assessment EXCEPT !.duration = req[r].val]
  /\ lastResponse' = Response("update", "none", 200, NoSid, NoDate)
  /\ req' = [req EXCEPT ![r] = IdleReq]
  /\ UNCHANGED <<now, userGroups, subs, metrics, admitted>>
  /\ UNCHANGED <<questions, judge, executionQueue, executionLog>>

\* DELETE /:id: the assessment is loaded and its submissions counted
DeleteCount(r) ==
  /\ FreeSlot(r)
  /\ IF Len(subs) > 0
     THEN /\ lastResponse' = Response("delete", "none", 400, NoSid, NoDate)
          /\ UNCHANGED req
     ELSE /\ req' = [req EXCEPT ![r] = [IdleReq EXCEPT !.op = "delete",
                                           !.pc = "save"]]
          /\ UNCHANGED lastResponse
  /\ UNCHANGED <<now, assessment, userGroups, subs, metrics>>
  /\ UNCHANGED <<questions, judge, executionQueue, executionLog>>

\* assessment.isActive = false; assessment.save()
DeleteSave(r) ==
  /\ req[r].op = "delete" /\ req[r].pc = "save"
  /\ assessment' = [assessment EXCEPT !.isActive = FALSE]
  /\ lastResponse' = Response("delete", "none", 200, NoSid, NoDate)
  /\ req' = [req EXCEPT ![r] = IdleReq]
  /\ UNCHANGED <<now, userGroups, subs, metrics, admitted>>
  /\ UNCHANGED <<questions, judge, executionQueue, executionLog>>

\* ------------------------------------------------- POST /:id/start
\* the student-local deadline of the session payload
StudentEndTimeNoMin(sub, a) == sub.startedAt + a.duration * MsPerMinute

StudentEndTime(sub, a) ==
  Min(sub.startedAt + a.duration * MsPerMinute, a.endTime)

\* Assessment.getWithDetails populates the question of every manifest entry;
\* the session payload carries the populated entries
Populated(entries, qs) ==
  [i \in DOMAIN entries |->
     [points |-> entries[i].points, maxAttempts |-> entries[i].maxAttempts,
      question |-> qs[entries[i].question]]]

StartPayload(a, qs) ==
  [id |-> "session",
   codingQuestions |-> Populated(a.codingQuestions, qs),
   mcqQuestions |-> Populated(a.mcqQuestions, qs)]

\* the outcomes of [...Array(n).keys()].sort(() => Math.random() - 0.5):
\* the indices in any order
ShuffledIndices(options) ==
  {p \in [DOMAIN options -> DOMAIN options] :
     \A i, j \in DOMAIN options : i # j => p[i] # p[j]}

\* an index that is not the position of the sought one
IndexOfUnmapped(p, c) == c

\* shuffledIndices.indexOf(c)
IndexOf(p, c) ==
  IF \E i \in DOMAIN p : p[i] = c
  THEN CHOOSE i \in DOMAIN p : p[i] = c /\ \A j \in DOMAIN p : p[j] = c => i <= j
  ELSE -1

\* {...q.question.toObject(), options: shuffledIndices.map(i => options[i]),
\*  originalCorrectAnswer, shuffledCorrectAnswer}
ShuffledQuestion(q, p) ==
  [f \in DOMAIN q \cup {"originalCorrectAnswer", "shuffledCorrectAnswer"} |->
     IF f = "options" THEN [i \in DOMAIN p |-> q.options[p[i]]]
     ELSE IF f = "originalCorrectAnswer" THEN q.correctAnswer
     ELSE IF f = "shuffledCorrectAnswer" THEN IndexOf(p, q.correctAnswer)
     ELSE q[f]]

\* the session payloads the handler can send: with shuffleOptions every MCQ
\* entry gets its own shuffle
StartPayloads(a, qs) ==
  IF a.shuffleOptions
  THEN {[StartPayload(a, qs) EXCEPT !.mcqQuestions =
           [i \in DOMAIN @ |->
              [points |-> @[i].points, maxAttempts |-> @[i].maxAttempts,
               question |-> ShuffledQuestion(@[i].question, ps[i])]]] :
        ps \in {f \in [DOMAIN a.mcqQuestions ->
                         [OptionIndices -> OptionIndices]] :
                  \A i \in DOMAIN a.mcqQuestions :
                    f[i] \in ShuffledIndices(qs[a.mcqQuestions[i].question].options)}}
  ELSE {StartPayload(a, qs)}

IsAssigned(a, s) == \E g \in a.groups : g \in userGroups[s]

\* Assessment.getWithDetails, isAccessible and the group check
StartAccess(r, s) ==
  /\ FreeSlot(r)
  /\ IF ~IsAccessible(assessment, NowMs) \/ ~IsAssigned(assessment, s)
     THEN /\ lastResponse' = Response("start", s, 403, NoSid, NoDate)
          /\ UNCHANGED req
     ELSE /\ req' = [req EXCEPT ![r] = [IdleReq EXCEPT !.op = "start",
                                           !.pc = "find", !.student = s]]
          /\ UNCHANGED lastResponse
  /\ UNCHANGED <<now, assessment, userGroups, subs, metrics>>
  /\ UNCHANGED <<questions, judge, executionQueue, executionLog>>

\* AssessmentSubmission.findOne({assessment, student}) and the branch on it
StartFind(r) ==
  /\ req[r].op = "start" /\ req[r].pc = "find"
  /\ LET s == req[r].student
         i == FindOneByStudent(s)
     IN IF i # NoSid /\ subs[i].status = "submitted"
        THEN /\ lastResponse' = Response("start", s, 400, NoSid, NoDate)
             /\ req' = [req EXCEPT ![r] = IdleReq]
        ELSE IF i # NoSid
        THEN /\ \E data \in StartPayloads(assessment, questions) :
                  lastResponse' = ResponseWith("start", s, 200, i,
                                    StudentEndTime(subs[i], assessment), data)
             /\ req' = [req EXCEPT ![r] = IdleReq]
        ELSE /\ req' = [req EXCEPT ![r].pc = "insert", ![r].val = NowMs]
             /\ UNCHANGED lastResponse
  /\ UNCHANGED <<now, assessment, userGroups, subs, metrics, admitted>>
  /\ UNCHANGED <<questions, judge, executionQueue, executionLog>>

\* submission.save() of the new document, then the session payload
StartInsert(r) ==
  /\ req[r].op = "start" /\ req[r].pc = "insert"
  /\ LET s == req[r].student
         d == PreSave(NewSubmission(s, req[r].val))
     IN /\ subs' = Append(subs, d)
        /\ \E data \in StartPayloads(assessment, questions) :
             lastResponse' = ResponseWith("start", s, 200, Len(subs) + 1,
                               StudentEndTime(d, assessment), data)
  /\ req' = [req EXCEPT ![r] = IdleReq]
  /\ UNCHANGED <<now, assessment, userGroups, metrics, admitted>>
  /\ UNCHANGED <<questions, judge, executionQueue, executionLog>>

\* ------------------------------------------------ GET /questions/:id
\* the student view of a question: expectedOutput of the hidden test cases
\* and solutionCode are removed
StudentView(q) ==
  [q EXCEPT !.solutionCode = "none",
            !.testCases = [k \in DOMAIN q.testCases |->
                             [q.testCases[k] EXCEPT !.expectedOutput =
                                IF q.testCases[k].isHidden THEN "none" ELSE @]]]

GetQuestion(r, s, q) ==
  /\ FreeSlot(r)
  /\ lastResponse' = IF questions[q].isActive
                     THEN ResponseWith("question", s, 200, NoSid, NoDate,
                                       StudentView(questions[q]))
                     ELSE Response("question", s, 404, NoSid, NoDate)
  /\ UNCHANGED <<now, assessment, userGroups, subs, metrics, req>>
  /\ UNCHANGED <<questions, judge, executionQueue, executionLog>>

\* ---------------------------------------------- POST /:id/submit-mcq
\* findOne({assessment, student, status: 'in_progress'})
McqRead(r, s, q, ans) ==
  /\ FreeSlot(r)
  /\ LET i == FindOneByStatus(s, {"in_progress"})
     IN IF i = NoSid
        THEN /\ lastResponse' = Response("mcq", s, 404, NoSid, NoDate)
             /\ UNCHANGED req
        ELSE /\ req' = [req EXCEPT ![r] = [op |-> "mcq", pc |-> "save",
                          student |-> s, sid |-> i, snap |-> subs[i],
                          question |-> q, val |-> ans]]
             /\ UNCHANGED lastResponse
  /\ UNCHANGED <<now, assessment, userGroups, subs, metrics>>
  /\ UNCHANGED <<questions, judge, executionQueue, executionLog>>

McqAnswer(q, ans) ==
  [question |-> q, selectedAnswer |-> ans,
   isCorrect |-> (ans = questions[q].correctAnswer)]

\* the question lookup, the upsert into mcqAnswers and submission.save()
McqSave(r) ==
  /\ req[r].op = "mcq" /\ req[r].pc = "save"
  /\ LET s == req[r].student
         i == req[r].sid
         q == req[r].question
         snap == req[r].snap
         k == FindIndexByQuestion(snap.mcqAnswers, q)
         stored == SaveScalars(subs[i], snap, PreSave(snap))
     IN IF q \notin BankMcqIds
        THEN /\ lastResponse' = Response("mcq", s, 400, i, NoDate)
             /\ UNCHANGED subs
        ELSE /\ subs' = [subs EXCEPT ![i] =
                  IF k # 0
                  THEN [stored EXCEPT !.mcqAnswers[k] = McqAnswer(q, req[r].val)]
                  ELSE [stored EXCEPT !.mcqAnswers =
                          Append(@, McqAnswer(q, req[r].val))]]
             /\ lastResponse' = ResponseWith("mcq", s, 200, i, NoDate,
                                 [id |-> "mcq",
                                  isCorrect |-> McqAnswer(q, req[r].val).isCorrect])
  /\ req' = [req EXCEPT ![r] = IdleReq]
  /\ UNCHANGED <<now, assessment, userGroups, metrics, admitted>>
  /\ UNCHANGED <<questions, judge, executionQueue, executionLog>>

\* ------------------------------------------- POST /:id/submit-coding
CodingRead(r, s, q) ==
  /\ FreeSlot(r)
  /\ LET i == FindOneByStatus(s, {"in_progress"})
     IN IF i = NoSid
        THEN /\ lastResponse' = Response("coding", s, 404, NoSid, NoDate)
             /\ UNCHANGED req
        ELSE /\ req' = [req EXCEPT ![r] = [op |-> "coding", pc |-> "save",
                          student |-> s, sid |-> i, snap |-> subs[i],
                          question |-> q, val |-> 0]]
             /\ UNCHANGED lastResponse
  /\ UNCHANGED <<now, assessment, userGroups, subs, metrics>>
  /\ UNCHANGED <<questions, judge, executionQueue, executionLog>>

Attempt(passed, score) == [totalPassed |-> passed, score |-> score]

CodingEntry(q, attempts, best, done) ==
  [question |-> q, attempts |-> attempts, bestScore |-> best, isCompleted |-> done]

\* the attempt-limit check of the handler, on the document it loaded
AttemptLimitReached(snap, k, cfg) ==
  k # 0 /\ Len(snap.codingSubmissions[k].attempts) >= cfg.maxAttempts

\* the question lookup, the limit check, the push of the attempt and
\* submission.save()
CodingSave(r) ==
  /\ req[r].op = "coding" /\ req[r].pc = "save"
  /\ LET s == req[r].student
         i == req[r].sid
         q == req[r].question
         snap == req[r].snap
         k == FindIndexByQuestion(snap.codingSubmissions, q)
         c == FindIndexByQuestion(assessment.codingQuestions, q)
         stored == SaveScalars(subs[i], snap, PreSave(snap))
     IN IF q \notin BankCodingIds
        THEN /\ lastResponse' = Response("coding", s, 400, i, NoDate)
             /\ UNCHANGED subs
        ELSE IF k # 0 /\ c = 0
        THEN \* questionConfig is undefined: reading .maxAttempts throws
             /\ lastResponse' = Response("coding", s, 500, i, NoDate)
             /\ UNCHANGED subs
        ELSE IF k # 0 /\ AttemptLimitReached(snap, k, assessment.codingQuestions[c])
        THEN /\ lastResponse' = Response("coding", s, 400, i, NoDate)
             /\ UNCHANGED subs
        ELSE /\ subs' = [subs EXCEPT ![i] =
                  IF k # 0
                  THEN [stored EXCEPT
                          !.codingSubmissions[k].attempts = Append(@, Attempt(0, 0)),
                          !.codingSubmissions[k].isCompleted =
                             IF snap.codingSubmissions[k].isCompleted THEN FALSE ELSE @]
                  ELSE [stored EXCEPT !.codingSubmissions =
                          Append(@, CodingEntry(q, <<Attempt(0, 0)>>, 0, FALSE))]]
             /\ lastResponse' = Response("coding", s, 200, i, NoDate)
  /\ req' = [req EXCEPT ![r] = IdleReq]
  /\ UNCHANGED <<now, assessment, userGroups, metrics, admitted>>
  /\ UNCHANGED <<questions, judge, executionQueue, executionLog>>

\* -------------------------------------- POST /code/assessment-submit
\* Math.round((passedTests / totalTests) * 100), halves rounded up
ExecScore(passed, total) == (2 * passed * 100 + total) \div (2 * total)

\* attempts stored for question q in a document, over all its entries
AttemptCount(d, q) ==
  SumSeq([k \in DOMAIN d.codingSubmissions |->
            IF d.codingSubmissions[k].question = q
            THEN Len(d.codingSubmissions[k].attempts) ELSE 0])

ExecStatuses == {"in_progress", "submitted"}

\* the judge has run the test cases (passed of them pass); then
\* findOne({assessment, student, status: {$in: ['in_progress', 'submitted']}})
ExecRead(r, s, q, passed) ==
  /\ FreeSlot(r)
  /\ LET i == FindOneByStatus(s, ExecStatuses)
     IN IF i = NoSid
        THEN /\ lastResponse' = Response("exec", s, 404, NoSid, NoDate)
             /\ UNCHANGED req
        ELSE /\ AttemptCount(subs[i], q) < StoredAttemptCap
             /\ req' = [req EXCEPT ![r] = [op |-> "exec", pc |-> "save",
                          student |-> s, sid |-> i, snap |-> subs[i],
                          question |-> q, val |-> passed]]
             /\ UNCHANGED lastResponse
  /\ UNCHANGED <<now, assessment, userGroups, subs, metrics>>
  /\ UNCHANGED <<questions, judge, executionQueue, executionLog>>

\* the entry lookup, the push of the attempt, bestScore, isCompleted and
\* submission.save().  When the document has no entry for the question the
\* handler pushes a plain object and goes on changing that object: the
\* document array holds the subdocument cast from it at the push, so the
\* entry is stored as pushed (no attempts, bestScore 0).
ExecSave(r) ==
  /\ req[r].op = "exec" /\ req[r].pc = "save"
  /\ LET s == req[r].student
         i == req[r].sid
         q == req[r].question
         passed == req[r].val
         score == ExecScore(passed, TestCaseCount)
         snap == req[r].snap
         k == FindIndexByQuestion(snap.codingSubmissions, q)
         stored == SaveScalars(subs[i], snap, PreSave(snap))
         old == snap.codingSubmissions[k]
         best == IF score > old.bestScore THEN score ELSE old.bestScore
         done == (passed = TestCaseCount
                  \/ Len(old.attempts) + 1 >= ExecMaxAttempts)
     IN /\ subs' = [subs EXCEPT ![i] =
             IF k # 0
             THEN [stored EXCEPT
                     !.codingSubmissions[k].attempts = Append(@, Attempt(passed, score)),
                     !.codingSubmissions[k].bestScore =
                        IF best # old.bestScore THEN best ELSE @,
                     !.codingSubmissions[k].isCompleted =
                        IF done # old.isCompleted THEN done ELSE @]
             ELSE [stored EXCEPT !.codingSubmissions =
                     Append(@, CodingEntry(q, <<>>, 0, FALSE))]]
        /\ lastResponse' = Response("exec", s, 200, i, NoDate)
  /\ req' = [req EXCEPT ![r] = IdleReq]
  /\ UNCHANGED <<now, assessment, userGroups, metrics, admitted>>
  /\ UNCHANGED <<questions, judge, executionQueue, executionLog>>

\* ------------------------------ POST /code/execute: rate limiting
\* Date.now() of the execution routes: here a tick of the clock is half the
\* rate window
ExecTickMs == ExecWindowMs \div 2
ExecNowMs == now * ExecTickMs

\* recentExecutions.filter(time => now - time < 60000)
ValidExecutions(recent, t) == SelectSeq(recent, LAMBDA time : t - time < ExecWindowMs)

\* a limit test that lets one request too many through
RateLimitedAbove(valid) == Len(valid) > ExecRateLimit

\* validExecutions.length >= 10
RateLimited(valid) == Len(valid) >= ExecRateLimit

\* the rate-limit section of the handler, which runs without an await:
\* the user's recent executions are filtered, then the request is refused
\* with 429 or its time is pushed and the filtered list stored. An
\* admitted request goes on to the judge; executionLog records every
\* admitted request's time.
Execute(u) ==
  /\ LET valid == ValidExecutions(executionQueue[u], ExecNowMs)
     IN IF RateLimited(valid)
        THEN /\ lastResponse' = Response("execute", u, 429, NoSid, NoDate)
             /\ UNCHANGED <<executionQueue, executionLog>>
        ELSE /\ executionQueue' = [executionQueue EXCEPT ![u] = Append(valid, ExecNowMs)]
             /\ executionLog' = [executionLog EXCEPT ![u] = Append(@, ExecNowMs)]
             /\ lastResponse' = Response("execute", u, 200, NoSid, NoDate)
  /\ UNCHANGED <<now, assessment, userGroups, subs, metrics, req, admitted,
                 questions, judge>>

\* ------------------- POST /code/assessment-submit: the judge client
\* what one poll of the judge can give: a failed request or a status id
PollAnswers == {"neterror", "queued", "processing", "accepted", "wrong_answer"}

NoResult == [id |-> "none", description |-> ""]

JudgeResult(id, description) == [id |-> id, description |-> description]

Pending(result) == result.id \in {"processing", "queued"}

\* the loop condition with the attempt ceiling only
LoopContinuesIgnoreStatus(attempts, result) == attempts < MaxPolls

\* while (attempts < maxAttempts && (!result || result.status?.id ===
\* 'processing' || result.status?.id === 'queued'))
LoopContinues(attempts, result) ==
  attempts < MaxPolls /\ (result = NoResult \/ Pending(result))

JudgeCase(pc, attempts, result) ==
  [pc |-> pc, attempts |-> attempts, result |-> result]

\* the test of the loop condition: another iteration, or the promise
\* resolves with result || 'Failed to get results'
LoopTest(attempts, result) ==
  IF LoopContinues(attempts, result)
  THEN JudgeCase("poll", attempts, result)
  ELSE JudgeCase("done", 0,
                 IF result = NoResult
                 THEN JudgeResult("error", "Failed to get results")
                 ELSE result)

\* the question lookup; one submission per test case is prepared.
\* prepareTestCaseSubmission reads MAX_MEMORY, which codeExecution.js never
\* defines (only MAX_MEMORY_LIMIT); the route is modelled for a build in
\* which the name resolves, as it must for the module to load at all.
ExecBegin(r, s, q) ==
  /\ FreeSlot(r)
  /\ IF q \notin BankCodingIds
     THEN /\ lastResponse' = Response("exec", s, 404, NoSid, NoDate)
          /\ UNCHANGED <<req, judge>>
     ELSE /\ req' = [req EXCEPT ![r] = [IdleReq EXCEPT !.op = "exec",
                        !.pc = "judge", !.student = s, !.question = q]]
          /\ judge' = [judge EXCEPT ![r] =
                         [k \in DOMAIN questions[q].testCases |->
                            JudgeCase("submit", 0, NoResult)]]
          /\ UNCHANGED lastResponse
  /\ UNCHANGED <<now, assessment, userGroups, subs, metrics, questions,
                 executionQueue, executionLog>>

\* a failed axios.post that rejects the whole batch
JudgeSubmitAbortsBatch(r, k, ok) ==
  /\ req[r].op = "exec" /\ req[r].pc = "judge"
  /\ k \in DOMAIN judge[r]
  /\ judge[r][k].pc = "submit"
  /\ judge' = [judge EXCEPT ![r] =
                 IF ok THEN [@ EXCEPT ![k] = LoopTest(0, NoResult)]
                 ELSE [j \in DOMAIN @ |->
                         JudgeCase("done", 0,
                           JudgeResult("error", "Failed to submit test case"))]]
  /\ UNCHANGED <<now, assessment, userGroups, subs, metrics, req, lastResponse,
                 admitted, questions,
                 executionQueue, executionLog>>

\* axios.post of test case k: a token, or the request fails
JudgeSubmit(r, k, ok) ==
  /\ req[r].op = "exec" /\ req[r].pc = "judge"
  /\ k \in DOMAIN judge[r]
  /\ judge[r][k].pc = "submit"
  /\ judge' = [judge EXCEPT ![r][k] =
                 IF ok THEN LoopTest(0, NoResult)
                 ELSE JudgeCase("done", 0,
                        JudgeResult("error", "Failed to submit test case"))]
  /\ UNCHANGED <<now, assessment, userGroups, subs, metrics, req, lastResponse,
                 admitted, questions,
                 executionQueue, executionLog>>

\* one iteration of the polling loop of test case k, then the loop test
JudgePoll(r, k, ans) ==
  /\ req[r].op = "exec" /\ req[r].pc = "judge"
  /\ k \in DOMAIN judge[r]
  /\ judge[r][k].pc = "poll"
  /\ LET c == judge[r][k]
         a == c.attempts + 1
         res == IF ans = "neterror"
                THEN IF a = MaxPolls
                     THEN JudgeResult("error", "Timeout while polling for results")
                     ELSE c.result
                ELSE JudgeResult(ans, "")
     IN judge' = [judge EXCEPT ![r][k] = LoopTest(a, res)]
  /\ UNCHANGED <<now, assessment, userGroups, subs, metrics, req, lastResponse,
                 admitted, questions,
                 executionQueue, executionLog>>

\* formatTestCaseResults
FormatTestCaseResult(result) ==
  [status |-> result.id, passed |-> (result.id = "accepted"),
   score |-> IF result.id = "accepted" THEN 100 ELSE 0]

PassedTests(cases) ==
  Cardinality({k \in DOMAIN cases : FormatTestCaseResult(cases[k].result).passed})

\* Promise.all has resolved: the score, then
\* findOne({assessment, student, status: {$in: ['in_progress', 'submitted']}})
ExecFind(r) ==
  /\ req[r].op = "exec" /\ req[r].pc = "judge"
  /\ \A k \in DOMAIN judge[r] : judge[r][k].pc = "done"
  /\ LET s == req[r].student
         i == FindOneByStatus(s, ExecStatuses)
     IN IF i = NoSid
        THEN /\ lastResponse' = Response("exec", s, 404, NoSid, NoDate)
             /\ req' = [req EXCEPT ![r] = IdleReq]
        ELSE /\ req' = [req EXCEPT ![r].pc = "save", ![r].sid = i,
                          ![r].snap = subs[i], ![r].val = PassedTests(judge[r])]
             /\ UNCHANGED lastResponse
  /\ UNCHANGED <<now, assessment, userGroups, subs, metrics, admitted>>
  /\ UNCHANGED <<questions, judge, executionQueue, executionLog>>

\* ------------------------------------------------ POST /:id/submit
FinalizeStatusesAny == {"in_progress", "submitted"}

FinalizeStatuses == {"in_progress"}

\* findOne({assessment, student, status: 'in_progress'})
FinalizeRead(r, s) ==
  /\ FreeSlot(r)
  /\ LET i == FindOneByStatus(s, FinalizeStatuses)
     IN IF i = NoSid
        THEN /\ lastResponse' = Response("finalize", s, 404, NoSid, NoDate)
             /\ UNCHANGED req
        ELSE /\ req' = [req EXCEPT ![r] = [op |-> "finalize", pc |-> "save",
                          student |-> s, sid |-> i, snap |-> subs[i],
                          question |-> "none", val |-> 0]]
             /\ UNCHANGED lastResponse
  /\ UNCHANGED <<now, assessment, userGroups, subs, metrics>>
  /\ UNCHANGED <<questions, judge, executionQueue, executionLog>>

\* the reduce over mcqAnswers of the handler
McqPointsOf(a, answer) ==
  LET c == FindIndexByQuestion(a.mcqQuestions, answer.question)
      pts == IF c # 0 THEN a.mcqQuestions[c].points ELSE DefaultMcqPoints
      points == IF answer.isCorrect THEN pts ELSE 0
      negativePoints == IF a.negativeMarking /\ ~answer.isCorrect
                        THEN (pts * a.negativeMarkingValuePct) \div 100 ELSE 0
  IN points - negativePoints

McqScore(a, d) ==
  SumSeq([k \in DOMAIN d.mcqAnswers |-> McqPointsOf(a, d.mcqAnswers[k])])

\* the reduce over codingSubmissions of the handler
CodingScore(d) ==
  SumSeq([k \in DOMAIN d.codingSubmissions |-> d.codingSubmissions[k].bestScore])

\* the scores, submittedAt, timeTaken and status set on the loaded document
Finalized(a, snap, t) ==
  PreSave([snap EXCEPT
     !.submittedAt = t,
     !.timeTaken = (t - snap.startedAt) \div 1000,
     !.mcqScore = McqScore(a, snap),
     !.codingScore = CodingScore(snap),
     !.totalScore = McqScore(a, snap) + CodingScore(snap),
     !.status = "submitted"])

\* Assessment.findById, the scoring and submission.save()
FinalizeSave(r) ==
  /\ req[r].op = "finalize" /\ req[r].pc = "save"
  /\ LET i == req[r].sid
         snap == req[r].snap
     IN subs' = [subs EXCEPT ![i] =
                   SaveScalars(subs[i], snap, Finalized(assessment, snap, NowMs))]
  /\ req' = [req EXCEPT ![r].pc = "metric"]
  /\ UNCHANGED <<now, assessment, userGroups, metrics, lastResponse, admitted>>
  /\ UNCHANGED <<questions, judge, executionQueue, executionLog>>

\* PerformanceMetric.findOneAndUpdate({$inc: ...}, {upsert: true}) and the
\* response
FinalizeMetric(r) ==
  /\ req[r].op = "finalize" /\ req[r].pc = "metric"
  /\ LET s == req[r].student
     IN /\ metrics' = [metrics EXCEPT
                         ![s].totalAssessments = @ + 1,
                         ![s].completedAssessments = @ + 1]
        /\ lastResponse' = Response("finalize", s, 200, req[r].sid, NoDate)
  /\ req' = [req EXCEPT ![r] = IdleReq]
  /\ UNCHANGED <<now, assessment, userGroups, subs, admitted>>
  /\ UNCHANGED <<questions, judge, executionQueue, executionLog>>

\* ------------------------------------------------ GET /:id/results
\* find({assessment, status: 'submitted'}).sort({totalScore: -1}): the
\* submitted submissions by totalScore descending; the order of submissions
\* with equal totalScore is left to the store
\* GET /:id/results as a student: the assessment of one of the student's
\* groups, the showResults test, the student's own submission
GetStudentResults(s) ==
  /\ LET i == FindOneByStudent(s)
         showResults == assessment.showResultsImmediately
                          \/ NowMs > assessment.endTime
     IN lastResponse' =
          IF ~IsAssigned(assessment, s)
          THEN Response("myresults", s, 404, NoSid, NoDate)
          ELSE IF ~showResults
          THEN Response("myresults", s, 403, NoSid, NoDate)
          ELSE IF i = NoSid \/ subs[i].status # "submitted"
          THEN Response("myresults", s, 404, NoSid, NoDate)
          ELSE ResponseWith("myresults", s, 200, i, NoDate,
                 [id |-> "myresults",
                  student |-> subs[i].student,
                  status |-> subs[i].status,
                  total |-> subs[i].totalScore,
                  withAnswers |-> assessment.showCorrectAnswers,
                  mcqAnswers |-> IF assessment.showCorrectAnswers
                                 THEN subs[i].mcqAnswers ELSE <<>>])
  /\ UNCHANGED <<now, assessment, userGroups, subs, metrics, req, admitted>>
  /\ UNCHANGED <<questions, judge, executionQueue, executionLog>>

ResultOrders ==
  LET S == {i \in DOMAIN subs : subs[i].status = "submitted"}
      n == Cardinality(S)
  IN {f \in [1..n -> S] :
        /\ \A a, b \in 1..n : a # b => f[a] # f[b]
        /\ \A a, b \in 1..n :
             a < b => subs[f[a]].totalScore >= subs[f[b]].totalScore}

\* the results view of a teacher or admin: rank = index + 1 in that order
GetResults ==
  /\ \E f \in ResultOrders :
       lastResponse' = ResponseWith("results", "none", 200, NoSid, NoDate,
                                    [id |-> "results", ranking |-> f])
  /\ UNCHANGED <<now, assessment, userGroups, subs, metrics, req, admitted>>
  /\ UNCHANGED <<questions, judge, executionQueue, executionLog>>

\* ------------------------------------------------------ specifications
\* the session life cycle: the clock, the assessment's administration,
\* start and final submission
Next ==
  \/ Tick
  \/ Publish
  \/ \E r \in Reqs, d \in Durations : UpdateCheck(r, d)
  \/ \E r \in Reqs : UpdateWrite(r)
  \/ \E r \in Reqs, s \in Students : StartAccess(r, s)
  \/ \E r \in Reqs : StartFind(r)
  \/ \E r \in Reqs : StartInsert(r)
  \/ \E r \in Reqs, s \in Students : FinalizeRead(r, s)
  \/ \E r \in Reqs : FinalizeSave(r)
  \/ \E r \in Reqs : FinalizeMetric(r)

Spec == Init /\ [][Next]_vars

\* answer recording during an open session: the assessment has been created,
\* published and has started (Init, Publish and Tick lead here)
InitAnswers ==
  /\ now = MaxTime - 1
  /\ assessment = [NewAssessment(60, FALSE) EXCEPT !.isPublished = TRUE]
  /\ userGroups = [s \in Students |-> IF s = "s1" THEN {"g1"} ELSE {"g2"}]
  /\ subs = <<>>
  /\ metrics = [s \in Students |-> [totalAssessments |-> 0, completedAssessments |-> 0]]
  /\ req = [r \in Reqs |-> IdleReq]
  /\ admitted = 0
  /\ lastResponse = Response("none", "none", 0, NoSid, NoDate)
  /\ executionQueue = [u \in Students |-> <<>>]
  /\ executionLog = [u \in Students |-> <<>>]
  /\ questions = DefaultQuestions
  /\ judge = [r \in Reqs |-> IdleJudge]

NextAnswers ==
  \/ Tick
  \/ \E r \in Reqs, s \in Students : StartAccess(r, s)
  \/ \E r \in Reqs : StartFind(r)
  \/ \E r \in Reqs : StartInsert(r)
  \/ \E r \in Reqs, s \in Students, q \in McqQuestionIds, ans \in Answers :
       McqRead(r, s, q, ans)
  \/ \E r \in Reqs : McqSave(r)
  \/ \E r \in Reqs, s \in Students, q \in CodingQuestionIds : CodingRead(r, s, q)
  \/ \E r \in Reqs : CodingSave(r)
  \/ \E r \in Reqs, s \in Students, q \in CodingQuestionIds,
        passed \in 0..TestCaseCount : ExecRead(r, s, q, passed)
  \/ \E r \in Reqs : ExecSave(r)
  \/ \E r \in Reqs, s \in Students : FinalizeRead(r, s)
  \/ \E r \in Reqs : FinalizeSave(r)
  \/ \E r \in Reqs : FinalizeMetric(r)

SpecAnswers == InitAnswers /\ [][NextAnswers]_vars

\* submit-coding alone during an open session
NextCoding ==
  \/ Tick
  \/ \E r \in Reqs, s \in Students : StartAccess(r, s)
  \/ \E r \in Reqs : StartFind(r)
  \/ \E r \in Reqs : StartInsert(r)
  \/ \E r \in Reqs, s \in Students, q \in CodingQuestionIds : CodingRead(r, s, q)
  \/ \E r \in Reqs : CodingSave(r)

SpecCoding == InitAnswers /\ [][NextCoding]_vars

\* submit-mcq and submit-coding during an open session, for any question of
\* the Question collection
NextBank ==
  \/ Tick
  \/ \E r \in Reqs, s \in Students : StartAccess(r, s)
  \/ \E r \in Reqs : StartFind(r)
  \/ \E r \in Reqs : StartInsert(r)
  \/ \E r \in Reqs, s \in Students, q \in BankQuestionIds, ans \in Answers :
       McqRead(r, s, q, ans)
  \/ \E r \in Reqs : McqSave(r)
  \/ \E r \in Reqs, s \in Students, q \in BankQuestionIds : CodingRead(r, s, q)
  \/ \E r \in Reqs : CodingSave(r)

SpecBank == InitAnswers /\ [][NextBank]_vars

\* the student-facing views during an open session, over Question
\* collections that differ in their secret values
InitPayload ==
  /\ now = MaxTime - 1
  /\ assessment = [NewAssessment(60, FALSE) EXCEPT !.isPublished = TRUE]
  /\ userGroups = [s \in Students |-> IF s = "s1" THEN {"g1"} ELSE {"g2"}]
  /\ subs = <<>>
  /\ metrics = [s \in Students |-> [totalAssessments |-> 0, completedAssessments |-> 0]]
  /\ req = [r \in Reqs |-> IdleReq]
  /\ admitted = 0
  /\ lastResponse = Response("none", "none", 0, NoSid, NoDate)
  /\ executionQueue = [u \in Students |-> <<>>]
  /\ executionLog = [u \in Students |-> <<>>]
  /\ \E sol \in SolutionCodes, hid \in HiddenOutputs, ca \in Answers :
       questions = QuestionBank(sol, hid, ca)
  /\ judge = [r \in Reqs |-> IdleJudge]

NextPayload ==
  \/ Tick
  \/ \E r \in Reqs, s \in Students : StartAccess(r, s)
  \/ \E r \in Reqs : StartFind(r)
  \/ \E r \in Reqs : StartInsert(r)
  \/ \E r \in Reqs, s \in Students, q \in BankQuestionIds : GetQuestion(r, s, q)

SpecPayload == InitPayload /\ [][NextPayload]_vars

\* MCQ answering and final submission during an open session, over the
\* negative-marking settings of the assessment
NegativeValuesPct == {0, 25, 100}

InitScoring ==
  /\ now = MaxTime - 1
  /\ \E nm \in BOOLEAN, v \in NegativeValuesPct :
       assessment = [NewAssessment(60, FALSE) EXCEPT
                       !.isPublished = TRUE,
                       !.negativeMarking = nm,
                       !.negativeMarkingValuePct = v]
  /\ userGroups = [s \in Students |-> IF s = "s1" THEN {"g1"} ELSE {"g2"}]
  /\ subs = <<>>
  /\ metrics = [s \in Students |-> [totalAssessments |-> 0, completedAssessments |-> 0]]
  /\ req = [r \in Reqs |-> IdleReq]
  /\ admitted = 0
  /\ lastResponse = Response("none", "none", 0, NoSid, NoDate)
  /\ executionQueue = [u \in Students |-> <<>>]
  /\ executionLog = [u \in Students |-> <<>>]
  /\ questions = DefaultQuestions
  /\ judge = [r \in Reqs |-> IdleJudge]

NextScoring ==
  \/ Tick
  \/ \E r \in Reqs, s \in Students : StartAccess(r, s)
  \/ \E r \in Reqs : StartFind(r)
  \/ \E r \in Reqs : StartInsert(r)
  \/ \E r \in Reqs, s \in Students, q \in McqQuestionIds, ans \in Answers :
       McqRead(r, s, q, ans)
  \/ \E r \in Reqs : McqSave(r)
  \/ \E r \in Reqs, s \in Students : FinalizeRead(r, s)
  \/ \E r \in Reqs : FinalizeSave(r)
  \/ \E r \in Reqs : FinalizeMetric(r)

SpecScoring == InitScoring /\ [][NextScoring]_vars

\* the pre-save hook over stored score fields: a stored in_progress
\* submission whose score fields are drawn around the grade thresholds is
\* loaded and saved by submit-mcq
ScoreInputs ==
  {-1, 0, 59999, 60000, 69999, 70000, 74999, 75000, 79999, 80000,
   84999, 85000, 89999, 90000, 94999, 95000, 100000}
MaxScoreInputs == {0, 100000}

InitGrade ==
  /\ now = MaxTime - 1
  /\ assessment = [NewAssessment(60, FALSE) EXCEPT !.isPublished = TRUE]
  /\ userGroups = [s \in Students |-> IF s = "s1" THEN {"g1"} ELSE {"g2"}]
  /\ \E m \in ScoreInputs, c \in {0, 1}, mx \in MaxScoreInputs :
       subs = << [NewSubmission("s1", StartTick * TickMs) EXCEPT
                    !.mcqScore = m, !.codingScore = c, !.mcqMaxScore = mx] >>
  /\ metrics = [s \in Students |-> [totalAssessments |-> 0, completedAssessments |-> 0]]
  /\ req = [r \in Reqs |-> IdleReq]
  /\ admitted = 0
  /\ lastResponse = Response("none", "none", 0, NoSid, NoDate)
  /\ executionQueue = [u \in Students |-> <<>>]
  /\ executionLog = [u \in Students |-> <<>>]
  /\ questions = DefaultQuestions
  /\ judge = [r \in Reqs |-> IdleJudge]

NextGrade ==
  \/ Tick
  \/ \E r \in Reqs, s \in Students, q \in McqQuestionIds, ans \in Answers :
       McqRead(r, s, q, ans)
  \/ \E r \in Reqs : McqSave(r)

SpecGrade == InitGrade /\ [][NextGrade]_vars

\* two students of the assessment's group take the assessment and a teacher
\* reads the results
InitRanking ==
  /\ now = MaxTime - 1
  /\ assessment = [NewAssessment(60, FALSE) EXCEPT !.isPublished = TRUE]
  /\ userGroups = [s \in Students |-> {"g1"}]
  /\ subs = <<>>
  /\ metrics = [s \in Students |-> [totalAssessments |-> 0, completedAssessments |-> 0]]
  /\ req = [r \in Reqs |-> IdleReq]
  /\ admitted = 0
  /\ lastResponse = Response("none", "none", 0, NoSid, NoDate)
  /\ executionQueue = [u \in Students |-> <<>>]
  /\ executionLog = [u \in Students |-> <<>>]
  /\ questions = DefaultQuestions
  /\ judge = [r \in Reqs |-> IdleJudge]

NextRanking ==
  \/ Tick
  \/ \E r \in Reqs, s \in Students : StartAccess(r, s)
  \/ \E r \in Reqs : StartFind(r)
  \/ \E r \in Reqs : StartInsert(r)
  \/ \E r \in Reqs, s \in Students : FinalizeRead(r, s)
  \/ \E r \in Reqs : FinalizeSave(r)
  \/ \E r \in Reqs : FinalizeMetric(r)
  \/ GetResults

SpecRanking == InitRanking /\ [][NextRanking]_vars

\* the judge client of one test case: a code submission of s1 whose other
\* test cases have been judged already
TerminalAnswers == {"accepted", "wrong_answer"}

InitPolling ==
  /\ now = MaxTime - 1
  /\ assessment = [NewAssessment(60, FALSE) EXCEPT !.isPublished = TRUE]
  /\ userGroups = [s \in Students |-> IF s = "s1" THEN {"g1"} ELSE {"g2"}]
  /\ subs = <<>>
  /\ metrics = [s \in Students |-> [totalAssessments |-> 0, completedAssessments |-> 0]]
  /\ req = [r \in Reqs |-> IF r = 1
                            THEN [IdleReq EXCEPT !.op = "exec", !.pc = "judge",
                                    !.student = "s1", !.question = "c1"]
                            ELSE IdleReq]
  /\ admitted = 1
  /\ lastResponse = Response("none", "none", 0, NoSid, NoDate)
  /\ executionQueue = [u \in Students |-> <<>>]
  /\ executionLog = [u \in Students |-> <<>>]
  /\ questions = DefaultQuestions
  /\ \E live \in 1..TestCaseCount, other \in TerminalAnswers :
       judge = [r \in Reqs |->
                 IF r = 1
                 THEN [k \in 1..TestCaseCount |->
                         IF k = live THEN JudgeCase("submit", 0, NoResult)
                         ELSE JudgeCase("done", 0, JudgeResult(other, ""))]
                 ELSE IdleJudge]

NextPolling ==
  \/ \E k \in 1..TestCaseCount, ok \in BOOLEAN : JudgeSubmit(1, k, ok)
  \/ \E k \in 1..TestCaseCount, ans \in PollAnswers : JudgePoll(1, k, ans)

SpecPolling == InitPolling /\ [][NextPolling]_vars

\* a short assessment with either setting of the result switches: answers,
\* finalize and the student's results view
InitResults ==
  /\ now = StartTick
  /\ \E imm \in BOOLEAN, ca \in BOOLEAN :
       assessment = [NewAssessment(30, FALSE) EXCEPT
                       !.isPublished = TRUE,
                       !.showResultsImmediately = imm,
                       !.showCorrectAnswers = ca]
  /\ userGroups = [s \in Students |-> IF s = "s1" THEN {"g1"} ELSE {"g2"}]
  /\ subs = <<>>
  /\ metrics = [s \in Students |-> [totalAssessments |-> 0, completedAssessments |-> 0]]
  /\ req = [r \in Reqs |-> IdleReq]
  /\ admitted = 0
  /\ lastResponse = Response("none", "none", 0, NoSid, NoDate)
  /\ executionQueue = [u \in Students |-> <<>>]
  /\ executionLog = [u \in Students |-> <<>>]
  /\ questions = DefaultQuestions
  /\ judge = [r \in Reqs |-> IdleJudge]

NextResults ==
  \/ Tick
  \/ \E r \in Reqs, s \in Students : StartAccess(r, s)
  \/ \E r \in Reqs : StartFind(r)
  \/ \E r \in Reqs : StartInsert(r)
  \/ \E r \in Reqs, s \in Students, q \in McqQuestionIds, ans \in Answers :
       McqRead(r, s, q, ans)
  \/ \E r \in Reqs : McqSave(r)
  \/ \E r \in Reqs, s \in Students : FinalizeRead(r, s)
  \/ \E r \in Reqs : FinalizeSave(r)
  \/ \E r \in Reqs : FinalizeMetric(r)
  \/ \E s \in Students : GetStudentResults(s)

SpecResults == InitResults /\ [][NextResults]_vars

\* POST /code/execute requests of two users over three clock values
InitThrottle ==
  /\ now = MaxTime - 2
  /\ assessment = [NewAssessment(60, FALSE) EXCEPT !.isPublished = TRUE]
  /\ userGroups = [s \in Students |-> IF s = "s1" THEN {"g1"} ELSE {"g2"}]
  /\ subs = <<>>
  /\ metrics = [s \in Students |-> [totalAssessments |-> 0, completedAssessments |-> 0]]
  /\ req = [r \in Reqs |-> IdleReq]
  /\ admitted = 0
  /\ lastResponse = Response("none", "none", 0, NoSid, NoDate)
  /\ executionQueue = [u \in Students |-> <<>>]
  /\ executionLog = [u \in Students |-> <<>>]
  /\ questions = DefaultQuestions
  /\ judge = [r \in Reqs |-> IdleJudge]

NextThrottle ==
  \/ Tick
  \/ \E u \in Students : Execute(u)

SpecThrottle == InitThrottle /\ [][NextThrottle]_vars

\* a published assessment with sessions being started and delete requests
NextDelete ==
  \/ \E r \in Reqs, s \in Students : StartAccess(r, s)
  \/ \E r \in Reqs : StartFind(r)
  \/ \E r \in Reqs : StartInsert(r)
  \/ \E r \in Reqs : DeleteCount(r)
  \/ \E r \in Reqs : DeleteSave(r)

SpecDelete == InitAnswers /\ [][NextDelete]_vars

\* a short assessment whose window closes while the clock runs: sessions,
\* MCQ answers and finalize before and after the deadline
InitExpiry ==
  /\ now = StartTick
  /\ assessment = [NewAssessment(30, FALSE) EXCEPT !.isPublished = TRUE]
  /\ userGroups = [s \in Students |-> IF s = "s1" THEN {"g1"} ELSE {"g2"}]
  /\ subs = <<>>
  /\ metrics = [s \in Students |-> [totalAssessments |-> 0, completedAssessments |-> 0]]
  /\ req = [r \in Reqs |-> IdleReq]
  /\ admitted = 0
  /\ lastResponse = Response("none", "none", 0, NoSid, NoDate)
  /\ executionQueue = [u \in Students |-> <<>>]
  /\ executionLog = [u \in Students |-> <<>>]
  /\ questions = DefaultQuestions
  /\ judge = [r \in Reqs |-> IdleJudge]

NextExpiry ==
  \/ Tick
  \/ \E r \in Reqs, s \in Students : StartAccess(r, s)
  \/ \E r \in Reqs : StartFind(r)
  \/ \E r \in Reqs : StartInsert(r)
  \/ \E r \in Reqs, s \in Students, q \in McqQuestionIds, ans \in Answers :
       McqRead(r, s, q, ans)
  \/ \E r \in Reqs : McqSave(r)
  \/ \E r \in Reqs, s \in Students : FinalizeRead(r, s)
  \/ \E r \in Reqs : FinalizeSave(r)
  \/ \E r \in Reqs : FinalizeMetric(r)

SpecExpiry == InitExpiry /\ [][NextExpiry]_vars

\* sessions and MCQ answers of an assessment with shuffled options
InitShuffle ==
  /\ now = MaxTime - 1
  /\ assessment = [NewAssessment(60, FALSE) EXCEPT !.isPublished = TRUE,
                                                  !.shuffleOptions = TRUE]
  /\ userGroups = [s \in Students |-> IF s = "s1" THEN {"g1"} ELSE {"g2"}]
  /\ subs = <<>>
  /\ metrics = [s \in Students |-> [totalAssessments |-> 0, completedAssessments |-> 0]]
  /\ req = [r \in Reqs |-> IdleReq]
  /\ admitted = 0
  /\ lastResponse = Response("none", "none", 0, NoSid, NoDate)
  /\ executionQueue = [u \in Students |-> <<>>]
  /\ executionLog = [u \in Students |-> <<>>]
  /\ \E ca \in OptionIndices, opts \in [OptionIndices -> OptionTexts] :
       questions = [q \in BankQuestionIds |->
                      IF q \in BankMcqIds
                      THEN [DefaultQuestions[q] EXCEPT !.correctAnswer = ca,
                                                       !.options = opts]
                      ELSE DefaultQuestions[q]]
  /\ judge = [r \in Reqs |-> IdleJudge]

NextShuffle ==
  \/ \E r \in Reqs, s \in Students : StartAccess(r, s)
  \/ \E r \in Reqs : StartFind(r)
  \/ \E r \in Reqs : StartInsert(r)

SpecShuffle == InitShuffle /\ [][NextShuffle]_vars

\* the same sessions with the answers the student picks from the payload
NextShuffledAnswers ==
  \/ \E r \in Reqs, s \in Students : StartAccess(r, s)
  \/ \E r \in Reqs : StartFind(r)
  \/ \E r \in Reqs : StartInsert(r)
  \/ \E r \in Reqs, s \in Students, q \in McqQuestionIds, ans \in OptionIndices :
       McqRead(r, s, q, ans)
  \/ \E r \in Reqs : McqSave(r)

SpecShuffledAnswers == InitShuffle /\ [][NextShuffledAnswers]_vars

\* the batch of one code submission of s1, who has an open session: the
\* test cases are submitted and polled concurrently
BatchAnswers == {"neterror", "accepted", "wrong_answer"}

InitBatch ==
  /\ now = MaxTime - 1
  /\ assessment = [NewAssessment(60, FALSE) EXCEPT !.isPublished = TRUE]
  /\ userGroups = [s \in Students |-> IF s = "s1" THEN {"g1"} ELSE {"g2"}]
  /\ subs = <<PreSave(NewSubmission("s1", (MaxTime - 1) * TickMs))>>
  /\ metrics = [s \in Students |-> [totalAssessments |-> 0, completedAssessments |-> 0]]
  /\ req = [r \in Reqs |-> IF r = 1
                            THEN [IdleReq EXCEPT !.op = "exec", !.pc = "judge",
                                    !.student = "s1", !.question = "c1"]
                            ELSE IdleReq]
  /\ admitted = 2
  /\ lastResponse = Response("none", "none", 0, NoSid, NoDate)
  /\ executionQueue = [u \in Students |-> <<>>]
  /\ executionLog = [u \in Students |-> <<>>]
  /\ questions = DefaultQuestions
  /\ judge = [r \in Reqs |->
                IF r = 1
                THEN [k \in DOMAIN questions["c1"].testCases |->
                        JudgeCase("submit", 0, NoResult)]
                ELSE IdleJudge]

NextBatch ==
  \/ \E k \in 1..TestCaseCount, ok \in BOOLEAN : JudgeSubmit(1, k, ok)
  \/ \E k \in 1..TestCaseCount, ans \in BatchAnswers : JudgePoll(1, k, ans)
  \/ ExecFind(1)
  \/ ExecSave(1)

SpecBatch == InitBatch /\ [][NextBatch]_vars

\* code submissions of a student with an open session, judged one at a time
NextJudge ==
  \/ \E r \in Reqs, s \in Students : StartAccess(r, s)
  \/ \E r \in Reqs : StartFind(r)
  \/ \E r \in Reqs : StartInsert(r)
  \/ \E s \in Students, q \in CodingQuestionIds : ExecBegin(1, s, q)
  \/ \E k \in 1..TestCaseCount, ok \in BOOLEAN : JudgeSubmit(1, k, ok)
  \/ \E k \in 1..TestCaseCount, ans \in PollAnswers : JudgePoll(1, k, ans)
  \/ ExecFind(1)
  \/ ExecSave(1)

SpecJudge == InitAnswers /\ [][NextJudge]_vars

\* ------------------------------------------------------------ properties
DocsOf(s) == {i \in DOMAIN subs : subs[i].student = s}

HasSubmitted(s) == \E i \in DocsOf(s) : subs[i].status = "submitted"

HasInProgress(s) == \E i \in DocsOf(s) : subs[i].status = "in_progress"

FinalizeInFlight(s) ==
  \E r \in Reqs : req[r].op = "finalize" /\ req[r].student = s

ResultFields ==
  {"mcqScore", "codingScore", "totalScore", "percentage", "grade",
   "submittedAt", "timeTaken", "status"}

StoredResult(d) == [f \in ResultFields |-> d[f]]

C2_ExactlyOneTransition ==
  [][\A r \in Reqs :
       (req[r].op = "finalize" /\ req[r].pc = "save" /\ req'[r].pc = "metric")
       => subs[req[r].sid].status = "in_progress"]_vars

\* maxAttempts of the manifest for coding question q
MaxAttemptsOf(q) ==
  assessment.codingQuestions[FindIndexByQuestion(assessment.codingQuestions, q)].maxAttempts

C4_SerializedCheckAndAppend ==
  [][\A r \in Reqs :
       (req[r].op = "coding" /\ req[r].pc = "save" /\ req'[r].pc = "idle"
        /\ AttemptCount(req[r].snap, req[r].question)
             = MaxAttemptsOf(req[r].question) - 1)
       => AttemptCount(subs'[req[r].sid], req[r].question)
            <= MaxAttemptsOf(req[r].question)]_vars

\* C5: a student has at most one in_progress submission for the assessment.
C5_AtMostOneInProgress ==
  \A s \in Students :
    Cardinality({i \in DocsOf(s) : subs[i].status = "in_progress"}) <= 1

\* the time of the student's first start: the earliest startedAt among the
\* student's submissions
FirstStart(s) ==
  CHOOSE t \in {subs[i].startedAt : i \in DocsOf(s)} :
    \A i \in DocsOf(s) : t <= subs[i].startedAt

\* C6: every successful start call returns
\* endTime = min(first start + duration minutes, assessment.endTime).
C6_DeadlineFromFirstStart ==
  (lastResponse.op = "start" /\ lastResponse.code = 200)
  => lastResponse.endTime =
       Min(FirstStart(lastResponse.student) + assessment.duration * MsPerMinute,
           assessment.endTime)

\* the start call answered last: duration 30, session started at T + 10 min
C7_Case ==
  /\ lastResponse.op = "start" /\ lastResponse.code = 200
  /\ assessment.duration = 30
  /\ subs[lastResponse.sid].startedAt = assessment.startTime + 10 * MsPerMinute

\* C7 as stated: duration 30 minutes, startTime T, a start at T + 10 minutes
\* is given the deadline T + 40 minutes.
C7_DeadlineIsStartPlusDuration ==
  C7_Case => lastResponse.endTime = assessment.startTime + 40 * MsPerMinute

\* C7 amended: the deadline given is min(T + 40 minutes, assessment.endTime),
\* which is T + 30 minutes when endTime = startTime + duration.
C7_DeadlineIsCappedByEndTime ==
  C7_Case
  => /\ lastResponse.endTime =
          Min(assessment.startTime + 40 * MsPerMinute, assessment.endTime)
     /\ assessment.endTime = assessment.startTime + 30 * MsPerMinute
        => lastResponse.endTime = assessment.startTime + 30 * MsPerMinute

C7_Witness ==
  /\ C7_Case
  /\ assessment.endTime = assessment.startTime + 30 * MsPerMinute
  /\ lastResponse.endTime = assessment.startTime + 30 * MsPerMinute

\* accessibility as the claim defines it
ClaimAccessible(a, t) ==
  /\ a.isPublished
  /\ \/ (a.startTime <= t /\ t <= a.endTime)
     \/ (t > a.endTime /\ a.allowLateSubmission)

\* C8: a start call goes on to find or create a submission only if the
\* student's groups intersect the assessment's groups and the assessment is
\* accessible at that moment; otherwise it fails with 403 and creates
\* nothing.  Submissions are created, and sessions returned, by start calls
\* that passed this check only.
C8_StartOnlyIfEntitled ==
  [][ /\ \A r \in Reqs, s \in Students :
           StartAccess(r, s)
           => IF IsAssigned(assessment, s) /\ ClaimAccessible(assessment, NowMs)
              THEN TRUE
              ELSE /\ lastResponse' = Response("start", s, 403, NoSid, NoDate)
                   /\ req' = req
                   /\ subs' = subs
      /\ \A r \in Reqs :
           (req[r].op # "start" /\ req'[r].op = "start")
           => /\ IsAssigned(assessment, req'[r].student)
              /\ ClaimAccessible(assessment, NowMs)
      /\ (Len(subs') > Len(subs)
          \/ (lastResponse' # lastResponse /\ lastResponse'.op = "start"
              /\ lastResponse'.code = 200))
         => \E r \in Reqs : req[r].op = "start" /\ req[r].pc # "idle" ]_vars

\* a session was granted to the assigned student after endTime under
\* allowLateSubmission, and the start of the student outside the
\* assessment's groups was then refused with nothing created
C8_Witness ==
  /\ lastResponse = Response("start", "s2", 403, NoSid, NoDate)
  /\ DocsOf("s2") = {}
  /\ assessment.allowLateSubmission
  /\ \E i \in DocsOf("s1") : subs[i].startedAt > assessment.endTime

\* C9: once a student has a submitted submission, no start call of the
\* student creates a submission or returns a session: each fails with 400.
C9_NoSessionAfterSubmitted ==
  [][\A s \in Students :
       HasSubmitted(s)
       => \A r \in Reqs :
            /\ ~(StartInsert(r) /\ req[r].student = s)
            /\ (StartFind(r) /\ req[r].student = s)
               => lastResponse' = Response("start", s, 400, NoSid, NoDate)]_vars

ManifestIds(a) ==
  {a.mcqQuestions[i].question : i \in DOMAIN a.mcqQuestions}
  \cup {a.codingQuestions[i].question : i \in DOMAIN a.codingQuestions}

\* C11: a submit-mcq or submit-coding call for a question that is not in the
\* assessment's manifest is rejected with 400 and leaves the submissions
\* unchanged, so that no mcqAnswers or codingSubmissions entry is ever keyed
\* by a question outside the manifest.
C11_UnknownQuestionRejected ==
  [][\A r \in Reqs :
       (req[r].op \in {"mcq", "coding"} /\ req[r].pc = "save"
        /\ req'[r].pc = "idle"
        /\ req[r].question \notin ManifestIds(assessment))
       => subs' = subs /\ lastResponse'.code = 400]_vars
\* the Question collection with every secret value replaced by a fixed one
Blanked(qs) ==
  [q \in DOMAIN qs |->
     [qs[q] EXCEPT !.solutionCode = "none",
                   !.correctAnswer = 0,
                   !.testCases = [k \in DOMAIN qs[q].testCases |->
                      [qs[q].testCases[k] EXCEPT !.expectedOutput =
                         IF qs[q].testCases[k].isHidden THEN "none" ELSE @]]]]

\* C12: the session payload and the student view of a question do not
\* depend on solutionCode, on the expectedOutput of hidden test cases or on
\* the correct-answer index: each equals the payload computed from the
\* Question collection with those values blanked.
C12_PayloadIndependentOfSecrets ==
  /\ (lastResponse.op = "start" /\ lastResponse.code = 200)
     => lastResponse.data = StartPayload(assessment, Blanked(questions))
  /\ (lastResponse.op = "question" /\ lastResponse.code = 200)
     => lastResponse.data = StudentView(Blanked(questions)[lastResponse.data.id])
\* the contribution of each MCQ question of the manifest to the MCQ score as
\* C13 states it: by the answer recorded for the question, 0 when there is
\* none
ClaimMcqScore(a, d) ==
  SumSeq([c \in DOMAIN a.mcqQuestions |->
    LET pts == a.mcqQuestions[c].points
        k == FindIndexByQuestion(d.mcqAnswers, a.mcqQuestions[c].question)
    IN IF k = 0 THEN 0
       ELSE IF d.mcqAnswers[k].isCorrect THEN pts
       ELSE IF a.negativeMarking
            THEN 0 - ((pts * a.negativeMarkingValuePct) \div 100)
       ELSE 0])

\* C13: the mcqScore stored by finalize is the sum over the answered MCQ
\* questions of the manifest points (correct), minus points x
\* negativeMarkingValue (incorrect, negative marking on) or 0 (incorrect,
\* negative marking off); no question contributes less than minus its points.
C13_McqScoreByManifestPoints ==
  [][\A r \in Reqs :
       (req[r].op = "finalize" /\ req[r].pc = "save" /\ req'[r].pc = "metric")
       => /\ subs'[req[r].sid].mcqScore = ClaimMcqScore(assessment, req[r].snap)
          /\ subs'[req[r].sid].mcqScore >= 0 - TotalPoints(assessment)]_vars
\* manifest points of coding question q
PointsOf(q) ==
  assessment.codingQuestions[FindIndexByQuestion(assessment.codingQuestions, q)].points

C15_StoredTotalsAfterFinalize ==
  \A i \in DOMAIN subs :
    subs[i].status = "submitted"
    => /\ subs[i].totalScore = subs[i].mcqScore + subs[i].codingScore
       /\ subs[i].maxScore = TotalPoints(assessment)
       /\ subs[i].percentage.num * subs[i].maxScore
            = subs[i].totalScore * 100 * subs[i].percentage.den
       /\ subs[i].grade = GradeOf(subs[i].percentage)
\* p >= n for a percentage p = num/den (den > 0)
PctGeq(p, n) == p.num >= n * p.den

\* the grade table as C16 states it
ClaimGrade(p, g) ==
  /\ g = "A+" <=> PctGeq(p, 95)
  /\ g = "A" <=> (PctGeq(p, 90) /\ ~PctGeq(p, 95))
  /\ g = "B+" <=> (PctGeq(p, 85) /\ ~PctGeq(p, 90))
  /\ g = "B" <=> (PctGeq(p, 80) /\ ~PctGeq(p, 85))
  /\ g = "C+" <=> (PctGeq(p, 75) /\ ~PctGeq(p, 80))
  /\ g = "C" <=> (PctGeq(p, 70) /\ ~PctGeq(p, 75))
  /\ g = "D" <=> (PctGeq(p, 60) /\ ~PctGeq(p, 70))
  /\ g = "F" <=> ~PctGeq(p, 60)

\* C16: the grade of the pre-save hook follows the bucket table (94.999 is
\* A, 95.0 is A+, 59.999 is F, 60.0 is D, a negative percentage is F), and
\* every save of a submission leaves the stored grade equal to the bucket of
\* the stored percentage.
C16_GradeIsBucketOfPercentage ==
  [][ /\ GradeOf([num |-> 94999, den |-> 1000]) = "A"
      /\ GradeOf([num |-> 95, den |-> 1]) = "A+"
      /\ GradeOf([num |-> 59999, den |-> 1000]) = "F"
      /\ GradeOf([num |-> 60, den |-> 1]) = "D"
      /\ GradeOf([num |-> -1, den |-> 1]) = "F"
      /\ \A r \in Reqs :
           (req[r].pc = "save" /\ req'[r].pc = "idle" /\ subs' # subs)
           => ClaimGrade(subs'[req[r].sid].percentage, subs'[req[r].sid].grade) ]_vars

\* a submission was saved with percentage 94.999 and grade A, one step
\* below the A+ threshold
C16_Witness ==
  /\ lastResponse.op = "mcq" /\ lastResponse.code = 200
  /\ \E i \in DOMAIN subs :
       /\ subs[i].percentage = [num |-> 9499900, den |-> 100000]
       /\ subs[i].grade = "A"
\* submission x ranks strictly before submission y in the order
\* (totalScore descending, timeTaken ascending, submittedAt ascending)
RanksBefore(x, y) ==
  \/ x.totalScore > y.totalScore
  \/ x.totalScore = y.totalScore /\ x.timeTaken < y.timeTaken
  \/ /\ x.totalScore = y.totalScore /\ x.timeTaken = y.timeTaken
     /\ x.submittedAt < y.submittedAt

\* C17: the results view ranks the submitted submissions 1..n, each once, in
\* the order (totalScore descending, timeTaken ascending, submittedAt
\* ascending): no submission is ranked after one it should precede.
C17_ResultsFollowRankOrder ==
  [][(lastResponse'.op = "results" /\ lastResponse' # lastResponse)
     => LET f == lastResponse'.data.ranking
        IN /\ \A i \in DOMAIN subs :
                subs[i].status = "submitted" <=> \E a \in DOMAIN f : f[a] = i
           /\ \A a, b \in DOMAIN f :
                a < b => ~RanksBefore(subs[f[b]], subs[f[a]])]_vars

\* C18: the polling loop of one test case issues a poll only while it has
\* made fewer than 30 polls and has no terminal status yet: each poll
\* raises the poll count by one up to at most 30, a loop that was answered
\* with a terminal status, or that made its 30th poll, is finished, and a
\* finished loop polls no more.
C18_PollingLoopBounded ==
  [][\A r \in Reqs : \A k \in DOMAIN judge'[r] :
       LET after == judge'[r][k] IN
       /\ after.attempts < MaxPolls
       /\ after.pc = "poll" => (after.result = NoResult \/ Pending(after.result))
       /\ (k \in DOMAIN judge[r] /\ req'[r] = req[r]) =>
            LET before == judge[r][k] IN
            /\ before.pc = "done" => after = before
            /\ (before.pc = "poll" /\ after # before) =>
                 \/ after.pc = "poll" /\ after.attempts = before.attempts + 1
                 \/ /\ after.pc = "done"
                    /\ \/ ~Pending(after.result)
                       \/ before.attempts + 1 = MaxPolls ]_vars

\* a loop ended by the ceiling after thirty failed polls, next to a loop
\* ended by a terminal status
C18_Witness ==
  \E r \in Reqs :
    /\ req[r].pc = "judge"
    /\ \E k, j \in DOMAIN judge[r] :
         /\ judge[r][k] = JudgeCase("done", 0,
                JudgeResult("error", "Timeout while polling for results"))
         /\ judge[r][j] = JudgeCase("done", 0, JudgeResult("accepted", ""))

\* C19: when the thirtieth poll of a loop ends it without a terminal
\* status from the judge, the result returned for the test case is the
\* Timeout error, whose formatted status is neither pending nor that of a
\* judged program; a finished loop never holds a pending status.
C19_CeilingGivesTimeout ==
  [][\A r \in Reqs : \A k \in DOMAIN judge[r] \cap DOMAIN judge'[r] :
       LET before == judge[r][k]
           after == judge'[r][k]
       IN (/\ before.pc = "poll" /\ after.pc = "done"
           /\ before.attempts + 1 = MaxPolls
           /\ after.result.id \notin TerminalAnswers)
          => /\ after.result =
                  JudgeResult("error", "Timeout while polling for results")
             /\ ~Pending(after.result)
             /\ FormatTestCaseResult(after.result).status
                  \notin TerminalAnswers \cup {"queued", "processing"} ]_vars

C21_BatchIndependence ==
  [][\A r \in Reqs :
       (req[r].op = "exec" /\ req[r].pc = "judge") =>
         /\ DOMAIN judge[r] = 1..Len(questions[req[r].question].testCases)
         /\ DOMAIN judge'[r] = DOMAIN judge[r]
         /\ \A i \in DOMAIN judge[r] :
              judge'[r][i] # judge[r][i] =>
                \A j \in DOMAIN judge[r] \ {i} : judge'[r][j] = judge[r][j]
         /\ req'[r] # req[r] =>
              /\ \A k \in DOMAIN judge[r] : judge[r][k].pc = "done"
              /\ judge'[r] = judge[r]
              /\ req'[r].pc = "save"
              /\ req'[r].val =
                   Cardinality({k \in DOMAIN judge[r] :
                                  judge[r][k].result.id = "accepted"}) ]_vars

\* a batch that went on to the save with one test case never submitted
\* and another one accepted
C21_Witness ==
  \E r \in Reqs :
    /\ req[r].op = "exec" /\ req[r].pc = "save"
    /\ \E i, j \in DOMAIN judge[r] :
         /\ judge[r][i].result = JudgeResult("error", "Failed to submit test case")
         /\ judge[r][j].result = JudgeResult("accepted", "")

\* C22: with shuffleOptions, in every session payload each MCQ question's
\* options are a permutation of the question's options (same length, every
\* text as often as before) and the option at shuffledCorrectAnswer is the
\* text of the original correct option.
C22_ShuffleKeepsCorrectOption ==
  (lastResponse.op = "start" /\ lastResponse.code = 200 /\ assessment.shuffleOptions)
  => \A i \in DOMAIN assessment.mcqQuestions :
       LET orig == questions[assessment.mcqQuestions[i].question]
           sent == lastResponse.data.mcqQuestions[i].question
       IN /\ DOMAIN sent.options = DOMAIN orig.options
          /\ \A x \in OptionTexts :
               Cardinality({k \in DOMAIN sent.options : sent.options[k] = x})
                 = Cardinality({k \in DOMAIN orig.options : orig.options[k] = x})
          /\ sent.shuffledCorrectAnswer \in DOMAIN sent.options
          /\ sent.options[sent.shuffledCorrectAnswer] = orig.options[orig.correctAnswer]

\* a payload in which the correct option was moved and no other option has
\* its text
C22_Witness ==
  /\ lastResponse.op = "start" /\ lastResponse.code = 200
  /\ assessment.shuffleOptions
  /\ LET orig == questions["m1"]
         sent == lastResponse.data.mcqQuestions[1].question
     IN /\ sent.shuffledCorrectAnswer # orig.correctAnswer
        /\ \A k \in DOMAIN orig.options \ {orig.correctAnswer} :
             orig.options[k] # orig.options[orig.correctAnswer]

\* C23: in every state the assessment's endTime is its startTime plus its
\* duration in minutes.
C23_EndTimeIsStartPlusDuration ==
  assessment.endTime = assessment.startTime + assessment.duration * MsPerMinute

\* the student-local deadline of the session has passed and late
\* submission is not allowed
Overdue(d) ==
  /\ ~assessment.allowLateSubmission
  /\ NowMs > StudentEndTime(d, assessment)

\* C24: when late submission is disallowed, an answer, attempt or finalize
\* request that arrives after the student-local deadline of the session
\* does not find an in_progress session to work on, and no session changes
\* while it is in_progress and past its deadline, other than to expired.
C24_OverdueSessionClosed ==
  [][/\ \A r \in Reqs :
          (req[r].pc = "idle" /\ req'[r].pc = "save")
          => ~Overdue(subs[req'[r].sid])
     /\ \A i \in DOMAIN subs :
          (subs[i].status = "in_progress" /\ Overdue(subs[i]) /\ subs'[i] # subs[i])
          => subs'[i].status = "expired" ]_vars

\* the entries of a submission's mcqAnswers for one question
EntriesFor(d, q) ==
  {k \in DOMAIN d.mcqAnswers : d.mcqAnswers[k].question = q}

\* C25: mcqAnswers holds at most one entry per question; a submit-mcq save
\* leaves for its question exactly the answer it wrote, with that answer's
\* correctness, and keeps the stored entries of every other question.
C25_McqUpsertLastWriteWins ==
  [][/\ \A i \in DOMAIN subs' : \A q \in BankMcqIds :
          Cardinality(EntriesFor(subs'[i], q)) <= 1
     /\ \A r \in Reqs :
          (/\ req[r].op = "mcq" /\ req[r].pc = "save"
           /\ req'[r].pc = "idle" /\ subs' # subs) =>
            LET i == req[r].sid
                q == req[r].question
            IN /\ \A k \in EntriesFor(subs'[i], q) :
                    subs'[i].mcqAnswers[k] = McqAnswer(q, req[r].val)
               /\ \A k \in DOMAIN subs[i].mcqAnswers :
                    subs[i].mcqAnswers[k].question # q
                    => \E j \in DOMAIN subs'[i].mcqAnswers :
                         subs'[i].mcqAnswers[j] = subs[i].mcqAnswers[k] ]_vars

\* C26: an update request that arrives while the assessment's phase is
\* active or completed is rejected and changes nothing, and the update
\* route changes the assessment only while its phase is draft or upcoming.
C26_EditedOnlyBeforeStart ==
  [][\A r \in Reqs :
       /\ (/\ req[r].pc = "idle" /\ lastResponse'.op = "update"
           /\ lastResponse' # lastResponse
           /\ GetStatus(assessment, NowMs) \in {"active", "completed"})
          => lastResponse'.code = 400 /\ assessment' = assessment /\ req' = req
       /\ (req[r].op # "update" /\ req'[r].op = "update")
          => GetStatus(assessment, NowMs) \in {"draft", "upcoming"}
       /\ (req[r].op = "update" /\ req'[r].op # "update" /\ assessment' # assessment)
          => GetStatus(assessment, NowMs) \in {"draft", "upcoming"} ]_vars

\* C27: an assessment with isActive = false has no submission, and a delete
\* request that arrives when the assessment has a submission is rejected
\* and changes nothing.
C27_DeletedHasNoSubmissions ==
  [][/\ ~assessment'.isActive => Len(subs') = 0
     /\ (/\ lastResponse' # lastResponse /\ lastResponse'.op = "delete"
         /\ \A r \in Reqs : req[r].op # "delete"
         /\ Len(subs) > 0)
        => /\ lastResponse'.code = 400
           /\ assessment' = assessment /\ subs' = subs /\ req' = req ]_vars

\* C28: with shuffleOptions, when the answer a student submits is the index
\* at which the session payload last sent to them showed the correct
\* option, the stored answer has isCorrect = TRUE, and when it is the index
\* of an option with another text, isCorrect = FALSE.
C28_GradingFollowsShuffledView ==
  [][\A r \in Reqs :
       (/\ req[r].op = "mcq" /\ req[r].pc = "save" /\ req'[r].pc = "idle"
        /\ subs' # subs
        /\ assessment.shuffleOptions
        /\ lastResponse.op = "start" /\ lastResponse.code = 200
        /\ lastResponse.student = req[r].student)
       => LET q == req[r].question
              shown == (CHOOSE e \in {lastResponse.data.mcqQuestions[i] :
                                        i \in DOMAIN lastResponse.data.mcqQuestions} :
                          e.question.id = q).question
              right == questions[q].options[questions[q].correctAnswer]
          IN \A k \in EntriesFor(subs'[req[r].sid], q) :
               subs'[req[r].sid].mcqAnswers[k].selectedAnswer = req[r].val
               => /\ req[r].val = shown.shuffledCorrectAnswer
                     => subs'[req[r].sid].mcqAnswers[k].isCorrect
                  /\ shown.options[req[r].val] # right
                     => ~subs'[req[r].sid].mcqAnswers[k].isCorrect ]_vars

\* C29: a results response to a student carries that student's own
\* submission, whose status is submitted, and is given only if
\* showResultsImmediately is set or the clock is past endTime; it carries
\* the MCQ answers only if showCorrectAnswers is set; and the response to
\* submit-mcq does not say whether the recorded answer is correct.
C29_ResultsOnlyWhenReleased ==
  [][lastResponse' # lastResponse =>
       /\ (lastResponse'.op = "myresults" /\ lastResponse'.code = 200) =>
            /\ lastResponse'.data.student = lastResponse'.student
            /\ lastResponse'.data.status = "submitted"
            /\ assessment.showResultsImmediately \/ NowMs > assessment.endTime
            /\ ~assessment.showCorrectAnswers =>
                 /\ ~lastResponse'.data.withAnswers
                 /\ lastResponse'.data.mcqAnswers = <<>>
       /\ lastResponse'.op = "mcq" =>
            "isCorrect" \notin DOMAIN lastResponse'.data ]_vars

\* the number of admitted requests of a log whose time lies in the 60
\* seconds that start at w
AdmittedInWindow(log, w) ==
  Len(SelectSeq(log, LAMBDA time : w <= time /\ time < w + ExecWindowMs))

\* the number of a user's admitted requests that are less than 60 seconds old
AdmittedRecently(u) ==
  Len(SelectSeq(executionLog[u], LAMBDA time : ExecNowMs - time < ExecWindowMs))

\* C30: for every user, at most 10 requests are admitted in any 60-second
\* window; a request of a user is refused with 429, and recorded nowhere,
\* exactly when 10 of that user's admitted requests are less than 60
\* seconds old; and a request changes no other user's window.
C30_ExecuteThrottledPerUser ==
  [][/\ \A u \in Students :
          executionLog'[u] # executionLog[u] =>
            \A w \in 0..MaxTime :
              AdmittedInWindow(executionLog'[u], w * ExecTickMs) <= ExecRateLimit
     /\ \A u \in Students :
          (lastResponse' # lastResponse /\ lastResponse'.op = "execute"
           /\ lastResponse'.student = u)
          => /\ \A v \in Students \ {u} :
                  /\ executionQueue'[v] = executionQueue[v]
                  /\ executionLog'[v] = executionLog[v]
             /\ IF AdmittedRecently(u) >= ExecRateLimit
                THEN /\ lastResponse'.code = 429
                     /\ executionQueue' = executionQueue
                     /\ executionLog' = executionLog
                ELSE /\ lastResponse'.code = 200
                     /\ executionLog'[u] = Append(executionLog[u], ExecNowMs) ]_vars

\* s1 was refused after ten admitted requests, s2 was admitted since, and
\* s1 again once its ten requests were 60 seconds old
C30_Witness ==
  /\ Len(executionLog["s1"]) = ExecRateLimit + 1
  /\ Len(executionLog["s2"]) >= 1
  /\ executionLog["s1"][1] + ExecWindowMs = executionLog["s1"][ExecRateLimit + 1]
  /\ lastResponse = Response("execute", "s1", 429, NoSid, NoDate)

====
